---- MODULE Spec2Model ----
(***************************************************************************)
(* A model of the assistants API client facade (src/app/utils/definitions.ts). *)
(* Nine exported async operations each build a request descriptor, hand it *)
(* to the transport collaborator (openai.request), await the settlement,   *)
(* and either return the (mapped) response or log and rethrow the error.   *)
(*                                                                         *)
(* JavaScript values are encoded as: string -> string, object -> record,   *)
(* array -> Arr(sequence), undefined -> Undefined.                         *)
(***************************************************************************)
EXTENDS Integers, Sequences, FiniteSets, TLC

\* Number of invocations that may be in flight at the same time.
NumCalls == 2

Invocations == 1..NumCalls

Undefined == [t |-> "undefined"]

Arr(s) == [t |-> "array", items |-> s]

EmptyObject == [k \in {} |-> ""]

Ops ==
  {"createAssistant", "getAssistant", "updateAssistant", "deleteAssistant",
   "listAssistants", "createThread", "addMessage", "createRun", "uploadFile"}

(***************************************************************************)
(* Inputs the callers may pass.                                            *)
(***************************************************************************)
CodeTool == [type |-> "code_interpreter"]

Msg1 == [role |-> "user", content |-> "hello"]

Msg2 == [role |-> "assistant", content |-> "hi", attachments |-> Arr(<<[file_id |-> "f1"]>>)]

ReadablePaths == {"/data/notes.txt"}

Inputs(op) ==
  CASE op = "createAssistant" ->
         {[params |-> [name |-> "n", description |-> "d", model |-> "m",
                       tools |-> Arr(<<CodeTool>>)]]}
    [] op = "getAssistant" -> {[assistantId |-> "a1"]}
    [] op = "updateAssistant" ->
         {[assistantId |-> "a1", updates |-> u] :
            u \in {[name |-> "X"], [name |-> "X", tools |-> Arr(<<CodeTool>>)]}}
    [] op = "deleteAssistant" -> {[assistantId |-> "a1"]}
    [] op = "listAssistants" ->
         {[query |-> q] : q \in {Undefined, [limit |-> "2", after |-> "a0"]}}
    [] op = "createThread" ->
         {[assistantId |-> "a1", title |-> "T", initialMessages |-> m] :
            m \in {Undefined, Arr(<<Msg1, Msg2>>)}}
    [] op = "addMessage" -> {[threadId |-> "t1", message |-> Msg1]}
    [] op = "createRun" ->
         {[threadId |-> "t1", assistantId |-> "a1", options |-> o] :
            o \in {Undefined,
                   [model |-> "m", instructions |-> "i"],
                   [temperature |-> "0.2"],
                   [assistant_id |-> "a2", model |-> "m"]}}
    [] op = "uploadFile" ->
         {[filePath |-> p, purpose |-> "assistants"] :
            p \in ReadablePaths \cup {"/missing/path"}}

(***************************************************************************)
(* Request construction.                                                   *)
(***************************************************************************)
\* { "OpenAI-Beta": "assistants=v2" }
BetaHeaders == "OpenAI-Beta" :> "assistants=v2"

\* A merge that keeps only the keys the declared types name.
SpreadKnownOnly(a, b) ==
  [k \in (DOMAIN a \cup DOMAIN b) \cap {"assistant_id", "model", "instructions", "tools"} |->
     IF k \in DOMAIN b THEN b[k] ELSE a[k]]

\* { ...a, ...b }: own keys of both, a later key overriding an earlier one.
Spread(a, b) ==
  [k \in DOMAIN a \cup DOMAIN b |-> IF k \in DOMAIN b THEN b[k] ELSE a[k]]

\* options || {}
OrEmpty(options) == IF options = Undefined THEN EmptyObject ELSE options

\* query: Record<string, any> = {}
QueryOrDefault(query) == IF query = Undefined THEN EmptyObject ELSE query

\* form.append("file", fs.createReadStream(filePath)); form.append("purpose", purpose)
Form(filePath, purpose) ==
  [file |-> [stream |-> filePath], purpose |-> purpose]

\* form.getHeaders(): the multipart content type of the form, nothing else.
FormGetHeaders(form) == "content-type" :> "multipart/form-data"

Request(op, a) ==
  CASE op = "createAssistant" ->
         [method |-> "post", path |-> "/assistants",
          headers |-> BetaHeaders, body |-> a.params]
    [] op = "getAssistant" ->
         [method |-> "get", path |-> "/assistants/" \o a.assistantId,
          headers |-> BetaHeaders]
    [] op = "updateAssistant" ->
         [method |-> "post", path |-> "/assistants/" \o a.assistantId,
          headers |-> BetaHeaders, body |-> a.updates]
    [] op = "deleteAssistant" ->
         [method |-> "delete", path |-> "/assistants/" \o a.assistantId,
          headers |-> BetaHeaders]
    [] op = "listAssistants" ->
         [method |-> "get", path |-> "/assistants",
          headers |-> BetaHeaders, query |-> QueryOrDefault(a.query)]
    [] op = "createThread" ->
         [method |-> "post", path |-> "/assistants/" \o a.assistantId \o "/threads",
          headers |-> BetaHeaders,
          body |-> [title |-> a.title, messages |-> a.initialMessages]]
    [] op = "addMessage" ->
         [method |-> "post", path |-> "/threads/" \o a.threadId \o "/messages",
          headers |-> BetaHeaders, body |-> a.message]
    [] op = "createRun" ->
         [method |-> "post", path |-> "/threads/" \o a.threadId \o "/runs",
          headers |-> BetaHeaders,
          body |-> Spread([assistant_id |-> a.assistantId], OrEmpty(a.options))]
    [] op = "uploadFile" ->
         [method |-> "post", path |-> "/files",
          headers |-> Spread(EmptyObject, FormGetHeaders(Form(a.filePath, a.purpose))),
          body |-> Form(a.filePath, a.purpose)]

\* A duplicated transport call.
CallsTwice(op, a) == <<Request(op, a), Request(op, a)>>

\* The transport calls the synchronous prefix of an operation issues.
Calls(op, a) == <<Request(op, a)>>

(***************************************************************************)
(* The transport collaborator (openai.request) and its settlements.        *)
(***************************************************************************)
Assistant1 ==
  [id |-> "a1", name |-> "n", description |-> "d", model |-> "m",
   created_at |-> "1", updated_at |-> "1"]

Assistant2 ==
  [id |-> "a2", name |-> "n2", description |-> "d2", model |-> "m",
   created_at |-> "2", updated_at |-> "2"]

\* What the remote service may answer to a request of each operation.
Fulfilments(op) ==
  CASE op \in {"createAssistant", "getAssistant", "updateAssistant"} -> {Assistant1}
    [] op = "deleteAssistant" -> {Undefined}
    [] op = "listAssistants" ->
         {[object |-> "list", data |-> Arr(<<Assistant2, Assistant1>>),
           has_more |-> "true", last_id |-> "a1"]}
    [] op = "createThread" ->
         {[id |-> "t1", assistant_id |-> "a1", title |-> "T",
           messages |-> Arr(<<>>), created_at |-> "1"]}
    [] op = "addMessage" -> {Msg1}
    [] op = "createRun" ->
         {[id |-> "r1", thread_id |-> "t1", assistant_id |-> "a1", created_at |-> "1"]}
    [] op = "uploadFile" ->
         {[id |-> "f1", purpose |-> "assistants", filename |-> "notes.txt",
           size |-> "5", created_at |-> "1"]}

\* Errors the transport may raise: a remote rejection (ErrorResponse) or a
\* network failure.
Rejections ==
  {[status |-> "404",
    error |-> [message |-> "not found", type |-> "invalid_request_error"]],
   [code |-> "ECONNRESET"]}

Replies(op) ==
  {[kind |-> "fulfilled", value |-> v] : v \in Fulfilments(op)}
    \cup {[kind |-> "rejected", error |-> e] : e \in Rejections}

(***************************************************************************)
(* What each operation does with the settlement.                           *)
(***************************************************************************)
\* A property read on an object: undefined when the object has no such key.
Get(obj, key) == IF key \in DOMAIN obj THEN obj[key] ELSE Undefined

Reversed(s) == [k \in 1..Len(s) |-> s[Len(s) + 1 - k]]

\* A listing that hands the data back in another order.
ResultReordered(op, response) ==
  CASE op = "listAssistants" -> Arr(Reversed(response.data.items))
    [] op = "deleteAssistant" -> Undefined
    [] OTHER -> response

\* The value an operation returns for the awaited response.
Result(op, response) ==
  CASE op = "listAssistants" -> Get(response, "data")
    [] op = "deleteAssistant" -> Undefined
    [] OTHER -> response

\* The first argument of console.error in the catch block.
Label(op) ==
  CASE op = "createAssistant" -> "Error creating assistant:"
    [] op = "getAssistant" -> "Error retrieving assistant:"
    [] op = "updateAssistant" -> "Error updating assistant:"
    [] op = "deleteAssistant" -> "Error deleting assistant:"
    [] op = "listAssistants" -> "Error listing assistants:"
    [] op = "createThread" -> "Error creating thread:"
    [] op = "addMessage" -> "Error adding message:"
    [] op = "createRun" -> "Error creating run:"
    [] op = "uploadFile" -> "Error uploading file:"

\* console.error(label, error)
ConsoleError(op, error) == [message |-> Label(op), error |-> error]

\* A rethrow that wraps the error in a new one.
ThrownWrapped(error) == [message |-> "Request failed", cause |-> error]

\* throw error
Thrown(error) == error

(***************************************************************************)
(* State.                                                                  *)
(***************************************************************************)
VARIABLES
  pc,       \* pc[i]: where invocation i stands
  op,       \* op[i]: the operation invoked
  args,     \* args[i]: its arguments
  sent,     \* sent[i]: the request descriptors i handed to the transport
  reply,    \* reply[i]: how the transport settled i's request
  logged,   \* logged[i]: the console.error calls i made
  outcome,  \* outcome[i]: what i returned or raised to its caller
  stream    \* stream[i]: the read stream i created on the local file

vars == <<pc, op, args, sent, reply, logged, outcome, stream>>

Pending == [kind |-> "pending"]

Init ==
  /\ pc = [i \in Invocations |-> "idle"]
  /\ op = [i \in Invocations |-> "none"]
  /\ args = [i \in Invocations |-> EmptyObject]
  /\ sent = [i \in Invocations |-> <<>>]
  /\ reply = [i \in Invocations |-> Pending]
  /\ logged = [i \in Invocations |-> <<>>]
  /\ outcome = [i \in Invocations |-> Pending]
  /\ stream = [i \in Invocations |-> "none"]

\* A continuation that reads one slot shared by all invocations.
AwaitedShared(i) == reply[CHOOSE j \in Invocations : reply[j].kind # "pending"]

\* The settlement the continuation of invocation i resumes with.
Awaited(i) == reply[i]

\* A caller invokes an operation: the body runs synchronously up to the await,
\* building the request and handing it to the transport. uploadFile first
\* creates the read stream; fs.createReadStream opens the file later.
Invoke(i) ==
  /\ pc[i] = "idle"
  /\ \E o \in Ops : \E a \in Inputs(o) :
       /\ op' = [op EXCEPT ![i] = o]
       /\ args' = [args EXCEPT ![i] = a]
       /\ sent' = [sent EXCEPT ![i] = sent[i] \o Calls(o, a)]
       /\ stream' = [stream EXCEPT ![i] = IF o = "uploadFile" THEN "created" ELSE "none"]
  /\ pc' = [pc EXCEPT ![i] = "awaiting"]
  /\ UNCHANGED <<reply, logged, outcome>>

\* The file system opens the file of a created stream: a descriptor is held
\* if the path is readable, otherwise the stream emits an error and holds none.
FsOpen(i) ==
  /\ stream[i] = "created"
  /\ stream' = [stream EXCEPT ![i] =
                  IF args[i].filePath \in ReadablePaths THEN "open" ELSE "errored"]
  /\ UNCHANGED <<pc, op, args, sent, reply, logged, outcome>>

\* The transport reads the body stream to its end; the stream closes itself.
Drain(i) ==
  /\ pc[i] = "awaiting"
  /\ stream[i] = "open"
  /\ stream' = [stream EXCEPT ![i] = "closed"]
  /\ UNCHANGED <<pc, op, args, sent, reply, logged, outcome>>

\* The transport settles the request of invocation i.
Settle(i) ==
  /\ pc[i] = "awaiting"
  /\ \E r \in Replies(op[i]) : reply' = [reply EXCEPT ![i] = r]
  /\ pc' = [pc EXCEPT ![i] = "settled"]
  /\ UNCHANGED <<op, args, sent, logged, outcome, stream>>

\* return response (or response.data)
Return(i) ==
  /\ pc[i] = "settled"
  /\ Awaited(i).kind = "fulfilled"
  /\ outcome' = [outcome EXCEPT ![i] =
                   [kind |-> "returned", value |-> Result(op[i], Awaited(i).value)]]
  /\ pc' = [pc EXCEPT ![i] = "done"]
  /\ UNCHANGED <<op, args, sent, reply, logged, stream>>

\* catch (error) { console.error(..., error);
Catch(i) ==
  /\ pc[i] = "settled"
  /\ Awaited(i).kind = "rejected"
  /\ logged' = [logged EXCEPT ![i] = Append(logged[i], ConsoleError(op[i], Awaited(i).error))]
  /\ pc' = [pc EXCEPT ![i] = "caught"]
  /\ UNCHANGED <<op, args, sent, reply, outcome, stream>>

\* throw error; }
Rethrow(i) ==
  /\ pc[i] = "caught"
  /\ outcome' = [outcome EXCEPT ![i] =
                   [kind |-> "raised", error |-> Thrown(Awaited(i).error)]]
  /\ pc' = [pc EXCEPT ![i] = "done"]
  /\ UNCHANGED <<op, args, sent, reply, logged, stream>>

Next ==
  \E i \in Invocations :
    \/ Invoke(i)
    \/ FsOpen(i)
    \/ Drain(i)
    \/ Settle(i)
    \/ Return(i)
    \/ Catch(i)
    \/ Rethrow(i)

Spec == Init /\ [][Next]_vars

(***************************************************************************)
(* Properties.                                                             *)
(***************************************************************************)
Started(i) == pc[i] # "idle"

\* C1: every request descriptor handed to the transport, whichever of the nine
\* operations built it, carries the header OpenAI-Beta = assistants=v2.
C1_EveryRequestHasBetaHeader ==
  \A i \in Invocations : \A k \in 1..Len(sent[i]) :
    /\ "OpenAI-Beta" \in DOMAIN sent[i][k].headers
    /\ sent[i][k].headers["OpenAI-Beta"] = "assistants=v2"

\* C2: uploadFile on a path that cannot be read fails before any network call:
\* the transport records no invocation for that call.
C2_UnreadableUploadMakesNoTransportCall ==
  \A i \in Invocations :
    (op[i] = "uploadFile" /\ args[i].filePath \notin ReadablePaths)
      => Len(sent[i]) = 0

\* C3: when the transport raises an error E, the operation first logs exactly
\* one diagnostic message naming the failed action, then fails with E itself,
\* neither wrapped nor replaced nor swallowed, and returns no result.
C3_TransportErrorLoggedOnceThenRethrown ==
  \A i \in Invocations :
    reply[i].kind = "rejected" =>
      /\ outcome[i].kind # "returned"
      /\ pc[i] = "settled" => (logged[i] = <<>> /\ outcome[i] = Pending)
      /\ pc[i] = "caught" => outcome[i] = Pending
      /\ pc[i] \in {"caught", "done"} =>
           logged[i] = <<[message |-> Label(op[i]), error |-> reply[i].error]>>
      /\ pc[i] = "done" => outcome[i] = [kind |-> "raised", error |-> reply[i].error]

C3_Witness ==
  \E i \in Invocations :
    /\ pc[i] = "done"
    /\ reply[i] = [kind |-> "rejected", error |-> [code |-> "ECONNRESET"]]
    /\ Len(logged[i]) = 1

\* C4: an invocation makes at most one transport call, and exactly one once it
\* has reached the transport; a rejected call is not followed by a second one.
C4_SingleTransportCall ==
  \A i \in Invocations :
    /\ Len(sent[i]) <= 1
    /\ Started(i) => Len(sent[i]) = 1

C4_Witness ==
  \E i, j \in Invocations :
    /\ pc[i] = "done" /\ outcome[i].kind = "returned" /\ Len(sent[i]) = 1
    /\ pc[j] = "done" /\ outcome[j].kind = "raised" /\ Len(sent[j]) = 1

\* C5: absent optional fields are omitted from the request body: createThread
\* without initialMessages sends a body with the single key title, and
\* updateAssistant sends a body with exactly the keys of updates.
C5_AbsentOptionalFieldsOmitted ==
  \A i \in Invocations : \A k \in 1..Len(sent[i]) :
    /\ (op[i] = "createThread" /\ args[i].initialMessages = Undefined)
         => DOMAIN sent[i][k].body = {"title"}
    /\ op[i] = "updateAssistant"
         => DOMAIN sent[i][k].body = DOMAIN args[i].updates

\* C6: for an options bag without an assistant_id key, the body of createRun
\* has exactly the keys assistant_id and those of options, assistant_id being
\* the assistantId argument and every other key keeping the value of options;
\* with options absent the body is exactly {assistant_id: assistantId}.
C6_RunBodyIsArgumentPlusOptions ==
  \A i \in Invocations : \A k \in 1..Len(sent[i]) :
    op[i] = "createRun" =>
      LET o == args[i].options
          keys == IF o = Undefined THEN {} ELSE DOMAIN o
          body == sent[i][k].body
      IN  "assistant_id" \notin keys =>
            /\ DOMAIN body = {"assistant_id"} \cup keys
            /\ body["assistant_id"] = args[i].assistantId
            /\ \A key \in keys : body[key] = o[key]
            /\ o = Undefined => body = [assistant_id |-> args[i].assistantId]

C6_Witness ==
  \E i \in Invocations :
    /\ op[i] = "createRun"
    /\ args[i].options = [temperature |-> "0.2"]
    /\ Len(sent[i]) = 1
    /\ sent[i][1].body = [assistant_id |-> "a1", temperature |-> "0.2"]

\* C7: once uploadFile has returned or raised, no read handle that the call
\* opened on the local file is still open.
C7_NoOpenHandleAfterUpload ==
  \A i \in Invocations :
    (op[i] = "uploadFile" /\ pc[i] = "done") => stream[i] # "open"

\* C8: listAssistants forwards query unchanged (an empty mapping when omitted)
\* and returns exactly the data sequence of the envelope: same elements, same
\* order, and no other field of the envelope.
C8_ListForwardsQueryReturnsData ==
  \A i \in Invocations :
    op[i] = "listAssistants" =>
      /\ \A k \in 1..Len(sent[i]) :
           sent[i][k].query =
             IF args[i].query = Undefined THEN EmptyObject ELSE args[i].query
      /\ (pc[i] = "done" /\ reply[i].kind = "fulfilled") =>
           /\ outcome[i] = [kind |-> "returned", value |-> reply[i].value.data]
           /\ outcome[i].value.items = reply[i].value.data.items

C8_Witness ==
  \E i \in Invocations :
    /\ op[i] = "listAssistants"
    /\ args[i].query = [limit |-> "2", after |-> "a0"]
    /\ pc[i] = "done"
    /\ outcome[i] = [kind |-> "returned", value |-> Arr(<<Assistant2, Assistant1>>)]

\* What invocation i alone owns of the state.
Local(i) ==
  <<pc[i], op[i], args[i], sent[i], reply[i], logged[i], outcome[i], stream[i]>>

C9_OwnRequestOwnOutcome ==
  \A i \in Invocations :
    /\ Started(i) => sent[i] = <<Request(op[i], args[i])>>
    /\ pc[i] = "done" =>
         outcome[i] =
           IF reply[i].kind = "fulfilled"
             THEN [kind |-> "returned", value |-> Result(op[i], reply[i].value)]
             ELSE [kind |-> "raised", error |-> reply[i].error]

C9_StepTouchesOneInvocation ==
  Cardinality({i \in Invocations : Local(i)' # Local(i)}) <= 1

\* C9: under any interleaving of concurrent invocations, each one sends the
\* request built from its own arguments and ends with exactly the response or
\* error the transport produced for that request; no step of one invocation,
\* a failure included, changes anything of another.
C9_InvocationsIndependent ==
  /\ []C9_OwnRequestOwnOutcome
  /\ [][C9_StepTouchesOneInvocation]_vars

C9_Witness ==
  \E i, j \in Invocations :
    /\ i # j
    /\ op[i] = op[j]
    /\ pc[i] = "done" /\ outcome[i].kind = "raised"
    /\ pc[j] = "settled" /\ reply[j].kind = "fulfilled"

\* C10: the assistant_id of the body createRun sends equals the assistantId
\* argument, also when the options bag itself has an assistant_id key.
C10_RunBodyAssistantIdIsArgument ==
  \A i \in Invocations : \A k \in 1..Len(sent[i]) :
    op[i] = "createRun" => sent[i][k].body["assistant_id"] = args[i].assistantId

====
